---- MODULE Spec2Model ----
(***************************************************************************)
(* State-machine model of shibboleth/middleware.py:                        *)
(* ShibbolethRemoteUserMiddleware.process_request and its helpers          *)
(* parse_attributes, parse_group_attributes and update_user_groups.        *)
(*                                                                         *)
(* Python strings are modelled as sequences of one-character strings, so   *)
(* that percent-decoding, splitting and emptiness tests are computed.      *)
(***************************************************************************)
EXTENDS Integers, Sequences, FiniteSets, TLC

VARIABLES
    UNQUOTE_ATTRIBUTES,  \* settings.UNQUOTE_ATTRIBUTES
    GROUP_ATTRIBUTES,    \* settings.GROUP_ATTRIBUTES (sequence of header names)
    META,                \* request.META: dict from header name to value
    hasUser,             \* hasattr(request, "user")
    user,                \* request.user (meaningful when hasUser)
    session,             \* request.session: dict, keys "shib" and "_auth_user_id"
    members,             \* Group.user_set relation: set of <<username, group name>>
    groupTable,          \* names of the rows of Group.objects
    calls,               \* collaborator calls made by the current invocation, in order
    outcome,             \* how the current invocation ended
    authResult,          \* what each auth.authenticate call of the current invocation returned
    pre,                 \* request.user, session, members, groupTable at entry
    ret,                 \* return values of the helper called on its own
    nreq                 \* number of requests delivered so far

vars == <<UNQUOTE_ATTRIBUTES, GROUP_ATTRIBUTES, META, hasUser, user, session,
          members, groupTable, calls, outcome, authResult, pre, ret, nreq>>

settingsVars == <<UNQUOTE_ATTRIBUTES, GROUP_ATTRIBUTES>>

-----------------------------------------------------------------------------
(* Bounds *)

\* Longest header value enumerated for the helpers called on their own.
MaxLen == 3

\* Number of requests delivered to the middleware in one behaviour.
MaxRequests == 2

-----------------------------------------------------------------------------
(* Values *)

\* A Python dict is a function whose domain is the set of keys present.
EmptyDict == [k \in {} |-> k]

Put(d, k, v) == [x \in DOMAIN d \cup {k} |-> IF x = k THEN v ELSE d[x]]

\* django.contrib.auth.models.AnonymousUser: username "", is_authenticated False.
AnonymousUser == [is_authenticated |-> FALSE, username |-> <<>>]

\* A django.contrib.auth.models.User row.
User(name) == [is_authenticated |-> TRUE, username |-> name]

Alphabet == {"j", "%", "4", ";"}

RECURSIVE StringsOfLen(_)
StringsOfLen(n) ==
    IF n = 0 THEN {<<>>}
    ELSE {Append(s, c) : s \in StringsOfLen(n - 1), c \in Alphabet}

RECURSIVE StringsUpTo(_)
StringsUpTo(n) == IF n = 0 THEN {<<>>} ELSE StringsOfLen(n) \cup StringsUpTo(n - 1)

Range(s) == {s[i] : i \in DOMAIN s}

-----------------------------------------------------------------------------
(* urllib.parse.unquote *)

\* The hexadecimal digits among the characters the model uses.
HexDigits == {"0", "4"}

\* The character whose code is the hexadecimal number hi lo.
HexToChar(hi, lo) ==
    CASE hi = "4" /\ lo = "0" -> "@"
      [] hi = "4" /\ lo = "4" -> "D"
      [] hi = "0" /\ lo = "4" -> "EOT"
      [] hi = "0" /\ lo = "0" -> "NUL"

RECURSIVE unquote(_)
unquote(s) ==
    IF s = <<>> THEN <<>>
    ELSE IF s[1] = "%" /\ Len(s) >= 3 /\ s[2] \in HexDigits /\ s[3] \in HexDigits
         THEN <<HexToChar(s[2], s[3])>> \o unquote(SubSeq(s, 4, Len(s)))
         ELSE <<s[1]>> \o unquote(Tail(s))

\* "if settings.UNQUOTE_ATTRIBUTES: value = unquote(value)"
MaybeUnquote(unq, value) == IF unq THEN unquote(value) ELSE value

-----------------------------------------------------------------------------
(* Settings read by the middleware (shibboleth/settings.py) *)

\* The remote-user header, RemoteUserMiddleware.header.
header == "REMOTE_USER"

\* settings.ATTRIBUTE_MAP in iteration order: header -> (required, name[, attr_processor]).
ATTRIBUTE_MAP ==
    << [header |-> "HTTP_MAIL", required |-> TRUE,  name |-> "mail", len |-> 2],
       [header |-> "HTTP_CN",   required |-> FALSE, name |-> "cn",   len |-> 3],
       [header |-> "HTTP_UID",  required |-> TRUE,  name |-> "uid",  len |-> 2] >>

\* settings.GROUP_DELIMITERS: patterns joined with "|" into one regular expression.
GROUP_DELIMITERS == <<";">>

\* The configured three-element entry's transformer: lambda x: x.split(";")[0].
FirstValue(value) ==
    IF \E i \in DOMAIN value : value[i] = ";"
    THEN SubSeq(value, 1, (CHOOSE i \in DOMAIN value :
                              /\ value[i] = ";"
                              /\ \A k \in 1..(i - 1) : value[k] # ";") - 1)
    ELSE value

-----------------------------------------------------------------------------
(* parse_attributes *)

\* Lines 117-121: a two-element entry gets the identity as its attr_processor.
attr_processor(attr, value) == IF attr.len = 3 THEN FirstValue(value) ELSE value

\* One iteration of the loop of lines 116-128.
ParseEntry(acc, attr, meta, unq) ==
    IF attr.header \in DOMAIN meta /\ meta[attr.header] # <<>>
    THEN [acc EXCEPT !.shib_attrs =
             Put(@, attr.name, attr_processor(attr, MaybeUnquote(unq, meta[attr.header])))]
    ELSE IF attr.required
         THEN [acc EXCEPT !.error = TRUE]
         ELSE acc

\* The loop stopping at the first missing required header.
RECURSIVE ParseLoopStopsAtError(_, _, _, _)
ParseLoopStopsAtError(i, acc, meta, unq) ==
    IF i > Len(ATTRIBUTE_MAP) \/ acc.error THEN acc
    ELSE ParseLoopStopsAtError(i + 1, ParseEntry(acc, ATTRIBUTE_MAP[i], meta, unq),
                               meta, unq)

RECURSIVE ParseLoop(_, _, _, _)
ParseLoop(i, acc, meta, unq) ==
    IF i > Len(ATTRIBUTE_MAP) THEN acc
    ELSE ParseLoop(i + 1, ParseEntry(acc, ATTRIBUTE_MAP[i], meta, unq), meta, unq)

parse_attributes(meta, unq) ==
    ParseLoop(1, [shib_attrs |-> EmptyDict, error |-> FALSE], meta, unq)

-----------------------------------------------------------------------------
(* parse_group_attributes *)

\* re.split("|".join(delims), s) for delimiters that are single literal characters.
RECURSIVE re_split(_, _)
re_split(s, delims) ==
    IF \E i \in DOMAIN s : s[i] \in Range(delims)
    THEN LET i == CHOOSE i \in DOMAIN s :
                     /\ s[i] \in Range(delims)
                     /\ \A k \in 1..(i - 1) : s[k] \notin Range(delims)
         IN <<SubSeq(s, 1, i - 1)>> \o re_split(SubSeq(s, i + 1, Len(s)), delims)
    ELSE <<s>>

\* filter(bool, parsed_groups)
FilterBool(tokens) == SelectSeq(tokens, LAMBDA t : t # <<>>)

RECURSIVE GroupLoop(_, _, _, _, _)
GroupLoop(i, groups, meta, unq, groupAttrs) ==
    IF i > Len(groupAttrs) THEN groups
    ELSE LET attr == groupAttrs[i]
             value == MaybeUnquote(unq, IF attr \in DOMAIN meta THEN meta[attr] ELSE <<>>)
         IN GroupLoop(i + 1, groups \o FilterBool(re_split(value, GROUP_DELIMITERS)),
                      meta, unq, groupAttrs)

parse_group_attributes(meta, unq, groupAttrs) == GroupLoop(1, <<>>, meta, unq, groupAttrs)

-----------------------------------------------------------------------------
(* update_user_groups *)

\* user.groups.all()
GroupsOf(mem, username) == {m[2] : m \in {x \in mem : x[1] = username}}

\* Add-only: nothing is removed.
RemoveStaleNever(mem, username, groups) == mem

\* Removal from the list being iterated: the group after a removed one is skipped.
RemoveStaleSkipping(mem, username, groups) ==
    LET stale == GroupsOf(mem, username) \ Range(groups)
    IN IF Cardinality(stale) >= 2
       THEN mem \ {<<username, g>> : g \in stale \ {CHOOSE g \in stale : TRUE}}
       ELSE mem \ {<<username, g>> : g \in stale}

\* Lines 98-100: leave every group whose name is not in the parsed list.
RemoveStale(mem, username, groups) ==
    mem \ {<<username, g>> : g \in GroupsOf(mem, username) \ Range(groups)}

\* Lines 102-104: get_or_create each listed group and join it.
AddListed(db, username, groups) ==
    [members    |-> db.members \cup {<<username, g>> : g \in Range(groups)},
     groupTable |-> db.groupTable \cup Range(groups)]

update_user_groups(db, username, groups) ==
    AddListed([db EXCEPT !.members = RemoveStale(db.members, username, groups)],
              username, groups)

-----------------------------------------------------------------------------
(* Collaborators of process_request *)

\* RemoteUserMiddleware.clean_username hands the name to the backend's
\* clean_username; the backend modelled strips a domain part ("name@domain").
clean_username(username) ==
    IF \E i \in DOMAIN username : username[i] = "@"
    THEN SubSeq(username, 1, (CHOOSE i \in DOMAIN username :
                                 /\ username[i] = "@"
                                 /\ \A k \in 1..(i - 1) : username[k] # "@") - 1)
    ELSE username

\* auth.login: a session of another user is flushed, then the user is recorded in it.
login(sess, username) ==
    IF "_auth_user_id" \in DOMAIN sess /\ sess["_auth_user_id"] # username
    THEN Put(EmptyDict, "_auth_user_id", username)
    ELSE Put(sess, "_auth_user_id", username)

\* make_profile and setup_session: stubs that return at once.
make_profile(req) == [req EXCEPT !.calls = Append(@, "make_profile")]

setup_session(req) == [req EXCEPT !.calls = Append(@, "setup_session")]

-----------------------------------------------------------------------------
(* process_request *)

\* Lines 31-35: the remote-user header, percent-decoded when configured.
HeaderUsername(meta, unq) == MaybeUnquote(unq, meta[header])

\* Only the KeyError is handled; the test "if not username" is left out.
NoIdentityKeyErrorOnly(meta, unq) == header \notin DOMAIN meta

\* Lines 36-44: the header is missing (KeyError) or its decoded value is empty.
NoIdentity(meta, unq) ==
    \/ header \notin DOMAIN meta
    \/ HeaderUsername(meta, unq) = <<>>

\* The comparison made with the header value as it is, not cleaned.
AlreadyLoggedInUncleaned(req, username) ==
    /\ req.user.is_authenticated
    /\ req.user.username = username

\* Lines 48-51: the session already holds this user.
AlreadyLoggedIn(req, username) ==
    /\ req.user.is_authenticated
    /\ req.user.username = clean_username(username)

\* The attribute map kept out of the session.
StoreShibSkipped(req, shib_meta) == [req EXCEPT !.calls = Append(@, "session_shib")]

\* The attribute map replacing the session instead of being stored in it.
StoreShibAlone(req, shib_meta) ==
    [req EXCEPT !.session = Put(EmptyDict, "shib", shib_meta),
                !.calls = Append(@, "session_shib")]

\* Line 56.
StoreShib(req, shib_meta) ==
    [req EXCEPT !.session = Put(@, "shib", shib_meta),
                !.calls = Append(@, "session_shib")]

\* Lines 73-74.
SyncGroups(req, unq, groupAttrs) ==
    IF groupAttrs # <<>>
    THEN LET db == update_user_groups(
                       [members |-> req.members, groupTable |-> req.groupTable],
                       req.user.username,
                       parse_group_attributes(req.META, unq, groupAttrs))
         IN [req EXCEPT !.members = db.members,
                        !.groupTable = db.groupTable,
                        !.calls = Append(@, "update_user_groups")]
    ELSE req

\* The hooks indented into the group-sync branch.
EstablishHooksWithSync(req, shib_meta, principal, unq, groupAttrs) ==
    LET r1 == [req EXCEPT !.user = User(principal)]
        r2 == [r1 EXCEPT !.session = login(@, principal),
                         !.calls = Append(@, "login")]
    IN IF groupAttrs # <<>>
       THEN setup_session(make_profile(SyncGroups(r2, unq, groupAttrs)))
       ELSE r2

\* Lines 65-78: the backend returned a user.
Establish(req, shib_meta, principal, unq, groupAttrs) ==
    LET r1 == [req EXCEPT !.user = User(principal)]
        r2 == [r1 EXCEPT !.session = login(@, principal),
                         !.calls = Append(@, "login")]
        r3 == SyncGroups(r2, unq, groupAttrs)
        r4 == make_profile(r3)
    IN setup_session(r4)

\* Lines 64-78: answer is what auth.authenticate returns for this call.
Authenticate(req, shib_meta, answer, unq, groupAttrs) ==
    LET r1 == [req EXCEPT !.calls = Append(@, "authenticate"),
                          !.authResult = Append(@, answer)]
    IN IF answer.found
       THEN Establish(r1, shib_meta, answer.username, unq, groupAttrs)
       ELSE r1

\* The error raised only after the backend was asked.
ParseAndAuthenticateLateRaise(req, answer, unq, groupAttrs) ==
    LET parsed == parse_attributes(req.META, unq)
        r1 == StoreShib([req EXCEPT !.calls = Append(@, "parse_attributes")],
                        parsed.shib_attrs)
        r2 == Authenticate(r1, parsed.shib_attrs, answer, unq, groupAttrs)
    IN IF parsed.error
       THEN [r2 EXCEPT !.outcome = "ShibbolethValidationError"]
       ELSE r2

\* Lines 53-78.
ParseAndAuthenticate(req, answer, unq, groupAttrs) ==
    LET parsed == parse_attributes(req.META, unq)
        r1 == StoreShib([req EXCEPT !.calls = Append(@, "parse_attributes")],
                        parsed.shib_attrs)
    IN IF parsed.error
       THEN [r1 EXCEPT !.outcome = "ShibbolethValidationError"]
       ELSE Authenticate(r1, parsed.shib_attrs, answer, unq, groupAttrs)

\* The whole handler: the request as it is when process_request ends.
process_request(req, answer, unq, groupAttrs) ==
    LET done == [req EXCEPT !.outcome = "returned"]
    IN IF ~req.hasUser
       THEN [req EXCEPT !.outcome = "ImproperlyConfigured"]
       ELSE IF NoIdentity(req.META, unq)
       THEN done
       ELSE IF AlreadyLoggedIn(done, HeaderUsername(req.META, unq))
       THEN [done EXCEPT !.calls = Append(@, "fast_path")]
       ELSE ParseAndAuthenticate(done, answer, unq, groupAttrs)

-----------------------------------------------------------------------------
(* Requests delivered by the framework *)

Merge(a, b) == [k \in DOMAIN a \cup DOMAIN b |-> IF k \in DOMAIN a THEN a[k] ELSE b[k]]

\* The header h absent, or present with one of the values.
Hdr(h, values) == {EmptyDict} \cup {[k \in {h} |-> v] : v \in values}

\* Users the authentication backend can return.
Principals == {<<"j">>, <<"D">>}

\* What auth.authenticate can return: None or a user.
Answers ==
    {[found |-> FALSE, username |-> <<>>]}
        \cup {[found |-> TRUE, username |-> p] : p \in Principals}

RemoteUserValues ==
    {<<>>, <<"j">>, <<"%", "4", "4">>, <<"j", "%", "4", "0", "j">>}

RequestMETAs ==
    {Merge(u, Merge(m, Merge(c, Merge(i, g)))) :
        u \in Hdr(header, RemoteUserValues),
        m \in Hdr("HTTP_MAIL", {<<>>, <<"j", "%", "4", "0", "j">>}),
        c \in Hdr("HTTP_CN", {<<"j", ";", "4">>}),
        i \in Hdr("HTTP_UID", {<<"j">>}),
        g \in Hdr("HTTP_GROUPS", {<<"j", ";", ";", "4">>, <<"%", "4", "4">>})}

InitMembers == {<<(<<"j">>), (<<"4">>)>>, <<(<<"D">>), (<<"j">>)>>, <<(<<"D">>), (<<"D">>)>>}

Snapshot(u, s, m, g) == [user |-> u, session |-> s, members |-> m, groupTable |-> g]

\* AuthenticationMiddleware: request.user restored from the session.
SessionUser(sess) ==
    IF "_auth_user_id" \in DOMAIN sess
    THEN User(sess["_auth_user_id"])
    ELSE AnonymousUser

Raised == {"ImproperlyConfigured", "ShibbolethValidationError"}

Init ==
    /\ UNQUOTE_ATTRIBUTES \in BOOLEAN
    /\ GROUP_ATTRIBUTES \in {<<>>, <<"HTTP_GROUPS">>}
    /\ META = EmptyDict
    /\ hasUser = TRUE
    /\ session \in {EmptyDict} \cup {Put(EmptyDict, "_auth_user_id", p) : p \in Principals}
    /\ user = SessionUser(session)
    /\ members = InitMembers
    /\ groupTable = {m[2] : m \in InitMembers}
    /\ calls = <<>>
    /\ outcome = "idle"
    /\ authResult = <<>>
    /\ pre = Snapshot(user, session, members, groupTable)
    /\ ret = <<>>
    /\ nreq = 0

\* The framework delivers the next request of this client. The session is the one
\* saved by the last response; a request that ended in an exception saved nothing.
NewRequest ==
    /\ outcome # "pending"
    /\ nreq < MaxRequests
    /\ LET saved == IF outcome \in Raised THEN pre.session ELSE session
       IN /\ session' = saved
          /\ hasUser' \in BOOLEAN
          /\ user' = SessionUser(saved)
          /\ META' \in RequestMETAs
          /\ pre' = Snapshot(user', saved, members, groupTable)
    /\ calls' = <<>>
    /\ authResult' = <<>>
    /\ outcome' = "pending"
    /\ nreq' = nreq + 1
    /\ UNCHANGED <<settingsVars, members, groupTable, ret>>

Request ==
    [META |-> META, hasUser |-> hasUser, user |-> user, session |-> session,
     members |-> members, groupTable |-> groupTable, calls |-> calls,
     outcome |-> outcome, authResult |-> authResult]

\* process_request runs to its end; r is the request as it leaves it.
Handled(r) ==
    /\ user' = r.user
    /\ session' = r.session
    /\ members' = r.members
    /\ groupTable' = r.groupTable
    /\ calls' = r.calls
    /\ outcome' = r.outcome
    /\ authResult' = r.authResult
    /\ UNCHANGED <<settingsVars, META, hasUser, pre, ret, nreq>>

Result(answer) == process_request(Request, answer, UNQUOTE_ATTRIBUTES, GROUP_ATTRIBUTES)

\* Lines 22-29.
RaiseImproperlyConfigured ==
    /\ outcome = "pending"
    /\ \E answer \in Answers :
          /\ Result(answer).outcome = "ImproperlyConfigured"
          /\ Handled(Result(answer))

\* Lines 36-44: no identity asserted.
ReturnNoIdentity ==
    /\ outcome = "pending"
    /\ \E answer \in Answers :
          /\ Result(answer).outcome = "returned"
          /\ Result(answer).calls = <<>>
          /\ Handled(Result(answer))

\* Lines 48-51.
ReturnFastPath ==
    /\ outcome = "pending"
    /\ \E answer \in Answers :
          /\ Result(answer).outcome = "returned"
          /\ Result(answer).calls = <<"fast_path">>
          /\ Handled(Result(answer))

\* Lines 54-60.
RaiseValidationError ==
    /\ outcome = "pending"
    /\ \E answer \in Answers :
          /\ Result(answer).outcome = "ShibbolethValidationError"
          /\ Handled(Result(answer))

\* Lines 64-65, authenticate returned None.
ReturnNoMatch ==
    /\ outcome = "pending"
    /\ \E answer \in Answers :
          /\ ~answer.found
          /\ Result(answer).outcome = "returned"
          /\ Result(answer).authResult # <<>>
          /\ Handled(Result(answer))

\* Lines 64-78, authenticate returned a user.
ReturnLoggedIn ==
    /\ outcome = "pending"
    /\ \E answer \in Answers :
          /\ answer.found
          /\ Result(answer).outcome = "returned"
          /\ Result(answer).authResult # <<>>
          /\ Handled(Result(answer))

Next ==
    \/ NewRequest
    \/ RaiseImproperlyConfigured
    \/ ReturnNoIdentity
    \/ ReturnFastPath
    \/ RaiseValidationError
    \/ ReturnNoMatch
    \/ ReturnLoggedIn

Spec == Init /\ [][Next]_vars

-----------------------------------------------------------------------------
(* parse_attributes called on its own, over every header value up to MaxLen *)

ParseMETAs ==
    {Merge(m, Merge(c, i)) :
        m \in Hdr("HTTP_MAIL", StringsUpTo(MaxLen)),
        c \in Hdr("HTTP_CN", StringsUpTo(MaxLen)),
        i \in Hdr("HTTP_UID", {<<>>, <<"j">>})}

InitParse ==
    /\ UNQUOTE_ATTRIBUTES \in BOOLEAN
    /\ GROUP_ATTRIBUTES = <<>>
    /\ META \in ParseMETAs
    /\ hasUser = TRUE
    /\ session = EmptyDict
    /\ user = AnonymousUser
    /\ members = {}
    /\ groupTable = {}
    /\ calls = <<>>
    /\ outcome = "idle"
    /\ authResult = <<>>
    /\ pre = Snapshot(user, session, members, groupTable)
    /\ ret = <<>>
    /\ nreq = 0

CallParseAttributes ==
    /\ ret = <<>>
    /\ ret' = <<parse_attributes(META, UNQUOTE_ATTRIBUTES)>>
    /\ UNCHANGED <<settingsVars, META, hasUser, user, session, members, groupTable,
                   calls, outcome, authResult, pre, nreq>>

NextParse == CallParseAttributes

SpecParse == InitParse /\ [][NextParse]_vars

-----------------------------------------------------------------------------
(* update_user_groups called on its own, over every group header up to MaxLen *)

PriorGroups == {<<"j">>, <<"4">>, <<"D">>}

GroupMETAs ==
    {Merge(g, r) :
        g \in Hdr("HTTP_GROUPS", StringsUpTo(MaxLen)),
        r \in Hdr("HTTP_ROLES", {<<"j">>})}

InitGroups ==
    /\ UNQUOTE_ATTRIBUTES \in BOOLEAN
    /\ GROUP_ATTRIBUTES \in {<<"HTTP_GROUPS">>, <<"HTTP_GROUPS", "HTTP_ROLES">>}
    /\ META \in GroupMETAs
    /\ hasUser = TRUE
    /\ session \in {Put(EmptyDict, "_auth_user_id", p) : p \in Principals}
    /\ user = SessionUser(session)
    /\ members \in SUBSET (Principals \X PriorGroups)
    /\ groupTable = {m[2] : m \in members}
    /\ calls = <<>>
    /\ outcome = "idle"
    /\ authResult = <<>>
    /\ pre = Snapshot(user, session, members, groupTable)
    /\ ret = <<>>
    /\ nreq = 0

\* update_user_groups(request, user), again with the same request.
CallUpdateUserGroups ==
    /\ Len(ret) < MaxRequests
    /\ LET db == update_user_groups(
                     [members |-> members, groupTable |-> groupTable],
                     user.username,
                     parse_group_attributes(META, UNQUOTE_ATTRIBUTES, GROUP_ATTRIBUTES))
       IN /\ members' = db.members
          /\ groupTable' = db.groupTable
          /\ ret' = Append(ret, db)
    /\ UNCHANGED <<settingsVars, META, hasUser, user, session,
                   calls, outcome, authResult, pre, nreq>>

NextGroups == CallUpdateUserGroups

SpecGroups == InitGroups /\ [][NextGroups]_vars

-----------------------------------------------------------------------------
(* Properties of parse_attributes (SpecParse) *)

\* A configured header is present with a non-empty value.
HasValue(attr) == attr.header \in DOMAIN META /\ META[attr.header] # <<>>

\* The value parse_attributes is to store for a present header: decoded when
\* configured, then passed through the entry's transformer.
Transformed(attr) ==
    LET decoded == IF UNQUOTE_ATTRIBUTES THEN unquote(META[attr.header])
                   ELSE META[attr.header]
    IN IF attr.len = 3 THEN FirstValue(decoded) ELSE decoded

Entries == {ATTRIBUTE_MAP[i] : i \in DOMAIN ATTRIBUTE_MAP}

\* C4 as stated: the returned map holds the transformed value of every configured
\* header present in the request, and the error flag is set exactly when a
\* required header is absent.
C4_AsStated ==
    ret # <<>> =>
        /\ \A attr \in Entries :
              attr.header \in DOMAIN META =>
                  /\ attr.name \in DOMAIN ret[1].shib_attrs
                  /\ ret[1].shib_attrs[attr.name] = Transformed(attr)
        /\ ret[1].error <=>
              \E attr \in Entries : attr.required /\ attr.header \notin DOMAIN META

\* C4 amended: the returned map holds the transformed value of every configured
\* header present with a non-empty value, whatever required header is missing
\* before or after it, and the error flag is set exactly when a required header
\* is absent or empty.
C4_ParseTotal ==
    ret # <<>> =>
        /\ \A attr \in Entries :
              HasValue(attr) =>
                  /\ attr.name \in DOMAIN ret[1].shib_attrs
                  /\ ret[1].shib_attrs[attr.name] = Transformed(attr)
        /\ ret[1].error <=> \E attr \in Entries : attr.required /\ ~HasValue(attr)

\* The first required header is absent and the optional one after it is present,
\* decoded and cut by its transformer.
C4_Witness ==
    /\ ret # <<>>
    /\ UNQUOTE_ATTRIBUTES
    /\ "HTTP_MAIL" \notin DOMAIN META
    /\ "HTTP_CN" \in DOMAIN META
    /\ META["HTTP_CN"] = <<"%", "4", "4">>
    /\ "HTTP_UID" \in DOMAIN META
    /\ META["HTTP_UID"] = <<"j">>
    /\ ret[1].error
    /\ ret[1].shib_attrs = [k \in {"cn", "uid"} |-> IF k = "cn" THEN <<"D">> ELSE <<"j">>]

-----------------------------------------------------------------------------
(* Properties of update_user_groups (SpecGroups) *)

ParsedGroups == parse_group_attributes(META, UNQUOTE_ATTRIBUTES, GROUP_ATTRIBUTES)

Others(mem, username) == {m \in mem : m[1] # username}

\* C7: after update_user_groups the user's groups are exactly the names of the
\* parsed list, every listed group exists, and nobody else's membership changed.
C7_FullSync ==
    ret # <<>> =>
        /\ GroupsOf(members, user.username) = Range(ParsedGroups)
        /\ Range(ParsedGroups) \subseteq groupTable
        /\ pre.groupTable \subseteq groupTable
        /\ Others(members, user.username) = Others(pre.members, user.username)

\* One group was left, one kept and one created and joined, while another user
\* stays in the group that was left.
C7_Witness ==
    /\ Len(ret) = 1
    /\ GroupsOf(pre.members, user.username) = {<<"j">>, <<"D">>}
    /\ GroupsOf(members, user.username) = {<<"j">>, <<"4">>}
    /\ <<"4">> \notin pre.groupTable
    /\ <<(<<"D">>), (<<"D">>)>> \in members

\* C9: every further application of update_user_groups with the same parsed list
\* leaves memberships and groups as the first application left them.
C9_Idempotent ==
    \A i \in DOMAIN ret : ret[i] = ret[1]

\* Applied twice, and the first application both removed and added memberships.
C9_Witness ==
    /\ Len(ret) >= 2
    /\ GroupsOf(pre.members, user.username) \ GroupsOf(ret[1].members, user.username) # {}
    /\ GroupsOf(ret[1].members, user.username) \ GroupsOf(pre.members, user.username) # {}
    /\ members = ret[1].members
    /\ groupTable = ret[1].groupTable

-----------------------------------------------------------------------------
(* Properties of process_request (Spec) *)

Ended == outcome \in {"returned", "ImproperlyConfigured", "ShibbolethValidationError"}

Count(seq, x) == Cardinality({i \in DOMAIN seq : seq[i] = x})

Called(x) == x \in Range(calls)

\* Every occurrence of a comes before every occurrence of b.
Before(a, b) ==
    \A i, k \in DOMAIN calls : (calls[i] = a /\ calls[k] = b) => i < k

\* The remote-user header as the handler reads it.
Decoded ==
    IF UNQUOTE_ATTRIBUTES THEN unquote(META[header]) ELSE META[header]

IdentityAsserted == header \in DOMAIN META /\ Decoded # <<>>

SameUserAsHeader ==
    /\ pre.user.is_authenticated
    /\ pre.user.username = clean_username(Decoded)

\* What parse_attributes returns for this request.
Parsed == parse_attributes(META, UNQUOTE_ATTRIBUTES)

\* The invocation got as far as parsing the attributes.
ReachedParsing == Ended /\ hasUser /\ IdentityAsserted /\ ~SameUserAsHeader

NoMatch == authResult # <<>> /\ ~authResult[1].found

Matched == authResult # <<>> /\ authResult[1].found

DatabaseUntouched == members = pre.members /\ groupTable = pre.groupTable

\* C1: when parsing reports an error, the partial map is in the session under
\* "shib", ShibbolethValidationError is raised, and nothing else happened: no
\* authenticate, no login, no group sync, no hook, the same current user.
C1_ValidationError ==
    (ReachedParsing /\ Parsed.error) =>
        /\ outcome = "ShibbolethValidationError"
        /\ session = Put(pre.session, "shib", Parsed.shib_attrs)
        /\ calls = <<"parse_attributes", "session_shib">>
        /\ authResult = <<>>
        /\ user = pre.user
        /\ DatabaseUntouched

\* A user logged in as somebody else sends a request with a required attribute
\* missing: the partial map is stored and the error raised.
C1_Witness ==
    /\ outcome = "ShibbolethValidationError"
    /\ pre.user.is_authenticated
    /\ "shib" \notin DOMAIN pre.session
    /\ "shib" \in DOMAIN session
    /\ session["shib"] # EmptyDict
    /\ "HTTP_MAIL" \notin DOMAIN META

\* C2 as stated: when the backend returns no match, the session after the call
\* equals the session before it.
C2_AsStated ==
    (Ended /\ NoMatch) => session = pre.session

\* C2 amended: when the backend returns no match, the session after the call is
\* the session before it with the parsed attribute map stored under "shib", and
\* nothing else in it changed.
C2_NoMatchSession ==
    (Ended /\ NoMatch) => session = Put(pre.session, "shib", Parsed.shib_attrs)

\* No match for a logged-in user whose session held no "shib" before.
C2_Witness ==
    /\ Ended
    /\ NoMatch
    /\ "_auth_user_id" \in DOMAIN pre.session
    /\ "shib" \notin DOMAIN pre.session
    /\ "shib" \in DOMAIN session

\* C3: when the backend returns no match, the current user after the call is
\* not an authenticated user, whoever it was before.
C3_NoMatchAnonymous ==
    (Ended /\ NoMatch) => ~user.is_authenticated

C6_FastPath ==
    (Ended /\ hasUser /\ IdentityAsserted /\ SameUserAsHeader) =>
        /\ outcome = "returned"
        /\ session = pre.session
        /\ user = pre.user
        /\ calls = <<"fast_path">>
        /\ authResult = <<>>
        /\ DatabaseUntouched

\* The header names the user only once decoded and cleaned, and a required
\* attribute is missing.
C6_Witness ==
    /\ outcome = "returned"
    /\ hasUser
    /\ header \in DOMAIN META
    /\ META[header] = <<"j", "%", "4", "0", "j">>
    /\ UNQUOTE_ATTRIBUTES
    /\ pre.user = User(<<"j">>)
    /\ "HTTP_MAIL" \notin DOMAIN META
    /\ "shib" \notin DOMAIN session
    /\ calls = <<"fast_path">>

\* C8: when the backend returned a user, make_profile and setup_session are each
\* called once, after login and after the group sync, which runs exactly when
\* group attributes are configured; on every other path neither is called.
C8_Hooks ==
    Ended =>
        IF Matched
        THEN /\ Count(calls, "make_profile") = 1
             /\ Count(calls, "setup_session") = 1
             /\ Count(calls, "login") = 1
             /\ user = User(authResult[1].username)
             /\ Before("login", "make_profile")
             /\ Before("login", "setup_session")
             /\ Before("update_user_groups", "make_profile")
             /\ Before("update_user_groups", "setup_session")
             /\ Called("update_user_groups") <=> GROUP_ATTRIBUTES # <<>>
        ELSE ~Called("make_profile") /\ ~Called("setup_session")

\* A login with no group attributes configured.
C8_Witness ==
    /\ outcome = "returned"
    /\ GROUP_ATTRIBUTES = <<>>
    /\ Matched
    /\ calls = <<"parse_attributes", "session_shib", "authenticate", "login",
                 "make_profile", "setup_session">>

\* C10: authenticate is called at most once, and only for a non-empty header off
\* the fast path, after "shib" was written and parsing reported no error; the
\* current user changes, and login happens, only to the user that call returned.
C10_BackendOnce ==
    /\ Len(authResult) <= 1
    /\ Count(calls, "authenticate") = Len(authResult)
    /\ authResult # <<>> =>
          /\ hasUser
          /\ IdentityAsserted
          /\ ~SameUserAsHeader
          /\ ~Parsed.error
          /\ Called("session_shib")
          /\ Before("session_shib", "authenticate")
    /\ Called("login") =>
          /\ Matched
          /\ Before("authenticate", "login")
          /\ user = User(authResult[1].username)
    /\ Ended => \/ user = pre.user
                \/ Matched /\ user = User(authResult[1].username)

\* The backend returned a user other than the one the session held.
C10_Witness ==
    /\ outcome = "returned"
    /\ Matched
    /\ pre.user.is_authenticated
    /\ user # pre.user
    /\ Count(calls, "authenticate") = 1

====
